---- MODULE Spec2Model ----
(***************************************************************************)
(* worklog: a command-line work-hours logger (src/src/main.rs).            *)
(*                                                                         *)
(* The persisted JSON array of sessions is the variable `file`; every      *)
(* command is one action that loads the file, computes, optionally saves   *)
(* and ends the process.  The wall clock (Utc::now().timestamp()) is the   *)
(* variable `now`; a command runs within one clock second.  Reading and    *)
(* writing the file succeed.                                               *)
(*                                                                         *)
(* Spec runs the commands of one user one after another, each as a whole.  *)
(* The specifications further down look at the same code from closer by:   *)
(* SpecReport hands any log file to report, SpecCorrupt damages the file   *)
(* between two commands, SpecFar logs hours of any size; SpecOne, SpecRun  *)
(* and SpecRace run the commands step by step (load, save, display), in    *)
(* one process and in two.                                                 *)
(***************************************************************************)
EXTENDS Integers, Sequences, FiniteSets, TLC

VARIABLES
    file,     \* the persisted log: the sequence of sessions in log.json
    now,      \* the wall clock, Utc::now().timestamp()
    ticks,    \* how often the clock has advanced
    last,     \* what the last command did: outcome, output, exit status
    content,  \* what log.json holds: "absent", "json", "garbage", "empty"
    pc,       \* per process: where it is in its command
    mem       \* per process: its command and its in-memory copy of the log

vars == <<file, now, ticks, last, content, pc, mem>>

(***************************************************************************)
(* Bounds of the model.                                                    *)
(***************************************************************************)
MaxLen == 2          \* most sessions kept in the file
MaxTicks == 1        \* most clock advances in one behaviour
MaxProbeLen == 3     \* most sessions of a log file handed to report alone

(***************************************************************************)
(* Inputs.                                                                 *)
(***************************************************************************)
Tags == {"a", "b"}

Periods == {"daily", "weekly", "monthly"}

\* `hours: f64` as an exact fraction <<numerator, denominator>>.  Every
\* denominator is a power of two, so the value and its product with 3600.0
\* are represented exactly by an f64 and `hours * 3600.0` is the rational
\* numerator * 3600 / denominator.
HoursInputs == {<<-1, 1>>, <<0, 1>>, <<1, 4096>>, <<72, 1>>}

\* Hours too many for their seconds to fit the integers of the checker are
\* written <<numerator, denominator, days>>, 0 <= numerator / denominator
\* < 24 and days > 0: the value is numerator / denominator + 24 * days hours.
\* Here 1e10 hours: 416,666,666 days and 16 hours.
FarHours == {<<16, 1, 416666666>>}

\* The whole days of an hours value that are written apart.
whole_days(h) == IF Len(h) = 3 THEN h[3] ELSE 0

\* The clock at the start: 2024-12-31 23:59:59 UTC, a Tuesday.  One second
\* later a new day, month and calendar year begin within the same ISO week
\* (2025-W01, Monday 2024-12-30 .. Sunday 2025-01-05); 72 hours earlier lies
\* Saturday 2024-12-28 in the week before (2024-W52).
Epoch0 == 1735689599

\* Clock advances between two runs of the program, in seconds.
TickSteps == {1}

(***************************************************************************)
(* Option<i64>: None is the empty sequence, Some(e) is <<e>>.              *)
(***************************************************************************)
None == <<>>

Some(e) == <<e>>

is_none(o) == o = None

is_some(o) == o # None

unwrap(o) == o[1]

\* struct Session.  The i64 `start` is held in two parts: it is the
\* second `start` minus `far` whole days, far = 0 wherever the second fits
\* the integers of the checker.
Session(tag, start, end) == [tag |-> tag, start |-> start, far |-> 0, end |-> end]

\* Session::duration(): Some(end - start) in seconds, None while running.
duration(s) == IF is_some(s.end) THEN Some(unwrap(s.end) - s.start) ELSE None

(***************************************************************************)
(* Calendar arithmetic of chrono (proleptic Gregorian calendar, UTC).      *)
(***************************************************************************)
SecsPerDay == 86400

\* The day number of a timestamp since 1970-01-01 (floor).
DayOf(ts) == ts \div SecsPerDay

\* The day number of the start of a session.
start_day(s) == DayOf(s.start) - s.far

\* Day number of the civil date y-m-d.
DaysFromCivil(y, m, d) ==
    LET yy  == IF m <= 2 THEN y - 1 ELSE y
        era == yy \div 400
        yoe == yy - era * 400
        mp  == IF m > 2 THEN m - 3 ELSE m + 9
        doy == (153 * mp + 2) \div 5 + d - 1
        doe == yoe * 365 + yoe \div 4 - yoe \div 100 + doy
    IN  era * 146097 + doe - 719468

\* The civil date [year, month, day] of a day number.
CivilFromDays(days) ==
    LET z   == days + 719468
        era == z \div 146097
        doe == z - era * 146097
        yoe == (doe - doe \div 1460 + doe \div 36524 - doe \div 146096) \div 365
        doy == doe - (365 * yoe + yoe \div 4 - yoe \div 100)
        mp  == (5 * doy + 2) \div 153
        d   == doy - (153 * mp + 2) \div 5 + 1
        m   == IF mp < 10 THEN mp + 3 ELSE mp - 9
        y   == yoe + era * 400 + (IF m <= 2 THEN 1 ELSE 0)
    IN  [year |-> y, month |-> m, day |-> d]

\* The years of the dates chrono 0.4 represents, at their widest.
MinYear == -262144

MaxYear == 262143

\* Utc.timestamp_opt(ts, 0).single(), by the day number of ts: None for a
\* day outside the dates chrono represents.
timestamp_opt(day) ==
    IF DaysFromCivil(MinYear, 1, 1) <= day /\ day <= DaysFromCivil(MaxYear, 12, 31)
    THEN Some(day)
    ELSE None

\* date_naive(): the civil date of a timestamp.
date_naive(ts) == CivilFromDays(DayOf(ts))

\* iso_week(): the ISO-8601 week of a timestamp, [year, week].  The week is
\* Monday..Sunday and belongs to the year that holds its Thursday.
iso_week(ts) ==
    LET days == DayOf(ts)
        thu  == days - ((days + 3) % 7) + 3   \* 1970-01-01 was a Thursday
        y    == CivilFromDays(thu).year
    IN  [year |-> y, week |-> (thu - DaysFromCivil(y, 1, 1)) \div 7 + 1]

\* dt.year() and dt.month()
year_month(ts) == LET d == date_naive(ts) IN [year |-> d.year, month |-> d.month]

\* within_period(ts, period) with the clock reading t.  Two dates are equal
\* exactly when their day numbers are; the two comparisons of the weekly and
\* of the monthly arm are one comparison of records.
within_period(ts, period, t) ==
    CASE period = "daily"   -> DayOf(ts) = DayOf(t)
      [] period = "weekly"  -> iso_week(ts) = iso_week(t)
      [] period = "monthly" -> year_month(ts) = year_month(t)
      [] OTHER              -> FALSE

(***************************************************************************)
(* The store: load_log / save_log and the searches of the commands.        *)
(***************************************************************************)
\* Variant: the sessions are read back whatever became of the file.
load_log_lenient == file

\* load_log(): the parsed content of the file; an absent file is empty, and
\* so is, by unwrap_or_default(), a file that does not parse (garbage, or no
\* bytes at all).
load_log == IF content = "json" THEN file ELSE <<>>

\* log.iter().position(|s| s.end.is_none()): index of the first running
\* session, 0 when there is none.
RECURSIVE position_from(_, _)
position_from(log, i) ==
    IF i > Len(log) THEN 0
    ELSE IF is_none(log[i].end) THEN i
    ELSE position_from(log, i + 1)

\* Variant: the search without its test, the first session of any kind.
position_first(log) == IF Len(log) > 0 THEN 1 ELSE 0

position(log) == position_from(log, 1)

\* Variant: the test inverted, any(|s| s.end.is_some()).
any_running_is_some(log) == \E i \in 1..Len(log) : is_some(log[i].end)

\* log.iter().any(|s| s.end.is_none())
any_running(log) == \E i \in 1..Len(log) : is_none(log[i].end)

\* Variant: Vec::truncate(pos - 1), the session at pos and all behind it.
remove_from(log, pos) == SubSeq(log, 1, pos - 1)

\* Variant: Vec::pop(), the last session whatever pos is.
remove_last(log, pos) == SubSeq(log, 1, Len(log) - 1)

\* Vec::remove(pos)
remove(log, pos) == [i \in 1..(Len(log) - 1) |-> IF i < pos THEN log[i] ELSE log[i + 1]]

\* Variant: f64::round before the conversion, the nearest integer with
\* halves away from zero.
round_as_i64(n, d) ==
    IF n >= 0 THEN (2 * n + d) \div (2 * d) ELSE -((2 * (-n) + d) \div (2 * d))

\* `x as i64` for the f64 n/d: truncation toward zero.  The products of
\* HoursInputs stay far inside the range of i64, where the cast saturates.
as_i64(n, d) == IF n >= 0 THEN n \div d ELSE -((-n) \div d)

(***************************************************************************)
(* The report engine.                                                      *)
(***************************************************************************)
EmptyAgg == [x \in {} |-> 0]

\* *agg.entry(tag).or_insert(0) += dur
add_entry(agg, tag, dur) ==
    [x \in (DOMAIN agg) \cup {tag} |->
        (IF x \in DOMAIN agg THEN agg[x] ELSE 0) + (IF x = tag THEN dur ELSE 0)]

\* Variant: both timestamps must lie in the period (&& for ||).
included_both(s, period, t) ==
    within_period(s.start, period, t) /\ within_period(unwrap(s.end), period, t)

\* Variant: only the end timestamp is tested.
included_by_end(s, period, t) == within_period(unwrap(s.end), period, t)

\* The test of the loop of cmd_report on a completed session.
included(s, period, t) ==
    within_period(s.start, period, t) \/ within_period(unwrap(s.end), period, t)

\* The loop of cmd_report over log[i..], with the clock reading t.
RECURSIVE aggregate_from(_, _, _, _, _)
aggregate_from(log, i, period, t, agg) ==
    IF i > Len(log) THEN agg
    ELSE LET s == log[i] IN
         IF is_some(s.end) /\ included(s, period, t)
         THEN aggregate_from(log, i + 1, period, t, add_entry(agg, s.tag, unwrap(duration(s))))
         ELSE aggregate_from(log, i + 1, period, t, agg)

aggregate(log, period, t) == aggregate_from(log, 1, period, t, EmptyAgg)

\* agg.into_iter().collect(): the (tag, secs) pairs in any iteration order.
into_iter(agg) ==
    LET n == Cardinality(DOMAIN agg)
        pairs == {<<x, agg[x]>> : x \in DOMAIN agg}
    IN  {ps \in [1..n -> pairs] : \A i, j \in 1..n : ps[i] = ps[j] => i = j}

\* Variant: the comparator the other way round, a.1.cmp(&b.1).
keeps_before_ascending(a, b) == a[2] <= b[2]

\* The comparator of pairs.sort_by: TRUE when a must stay before b.
keeps_before(a, b) == a[2] >= b[2]

\* One insertion of the stable sort: x goes behind every row that keeps its
\* place before x.
RECURSIVE insert_sorted(_, _)
insert_sorted(sorted, x) ==
    IF sorted = <<>> THEN <<x>>
    ELSE IF keeps_before(Head(sorted), x)
         THEN <<Head(sorted)>> \o insert_sorted(Tail(sorted), x)
         ELSE <<x>> \o sorted

\* pairs.sort_by(|a, b| b.1.cmp(&a.1)): stable, descending by seconds.
RECURSIVE sort_by(_)
sort_by(pairs) ==
    IF pairs = <<>> THEN <<>>
    ELSE insert_sorted(sort_by(SubSeq(pairs, 1, Len(pairs) - 1)), pairs[Len(pairs)])

(***************************************************************************)
(* What a run of the program leaves behind: the command and its arguments, *)
(* its outcome, the stream of its message, the exit status of the process, *)
(* the store as it was before, whether save_log was called, and for report *)
(* the aggregation and the rows of the table.                              *)
(***************************************************************************)
Outcome(cmd, arg, result, stream, exit, before, saved, agg, rows) ==
    [cmd |-> cmd, arg |-> arg, result |-> result, stream |-> stream, exit |-> exit,
     before |-> before, saved |-> saved, agg |-> agg, rows |-> rows]

\* main() returns after the command function returns: exit status 0.
Returned(cmd, arg, result, stream, before, saved) ==
    Outcome(cmd, arg, result, stream, "exit(0)", before, saved, EmptyAgg, <<>>)

(***************************************************************************)
(* The commands.  Each action is one run of the program: main() dispatches *)
(* to the command function, which loads, computes, saves and returns.      *)
(***************************************************************************)
\* save_log(log): the file is overwritten with the whole sequence.
save_log(log) == file' = log /\ content' = "json"

\* Variant: cmd_start without the test for a running session.
cmd_start_unchecked(tag) ==
    LET log == load_log IN
    /\ Len(log) < MaxLen
    /\ save_log(Append(log, Session(tag, now, None)))
    /\ last' = Outcome("start", <<tag>>, "Ok", "stdout", "SIGINT", log, TRUE, EmptyAgg, <<>>)
    /\ UNCHANGED <<now, ticks, pc, mem>>

\* cmd_start(tag).  After saving, the elapsed-time display loops until the
\* user interrupts the process; it never touches the file again.
cmd_start(tag) ==
    LET log == load_log IN
    IF any_running(log)
    THEN /\ last' = Returned("start", <<tag>>, "AlreadyRunning", "stderr", log, FALSE)
         /\ UNCHANGED <<file, content, now, ticks, pc, mem>>
    ELSE /\ Len(log) < MaxLen
         /\ save_log(Append(log, Session(tag, now, None)))
         /\ last' = Outcome("start", <<tag>>, "Ok", "stdout", "SIGINT", log, TRUE, EmptyAgg, <<>>)
         /\ UNCHANGED <<now, ticks, pc, mem>>

\* Variant: cmd_stop ends the session at the second it started.
cmd_stop_at_start ==
    LET log == load_log
        pos == position(log)
    IN  IF pos # 0
        THEN /\ save_log([log EXCEPT ![pos].end = Some(log[pos].start)])
             /\ last' = Returned("stop", <<>>, "Ok", "stdout", log, TRUE)
             /\ UNCHANGED <<now, ticks, pc, mem>>
        ELSE /\ last' = Returned("stop", <<>>, "NoActiveSession", "stderr", log, FALSE)
             /\ UNCHANGED <<file, content, now, ticks, pc, mem>>

\* cmd_stop()
cmd_stop ==
    LET log == load_log
        pos == position(log)
    IN  IF pos # 0
        THEN /\ save_log([log EXCEPT ![pos].end = Some(now)])
             /\ last' = Returned("stop", <<>>, "Ok", "stdout", log, TRUE)
             /\ UNCHANGED <<now, ticks, pc, mem>>
        ELSE /\ last' = Returned("stop", <<>>, "NoActiveSession", "stderr", log, FALSE)
             /\ UNCHANGED <<file, content, now, ticks, pc, mem>>

\* cmd_status()
cmd_status ==
    LET log == load_log
        pos == position(log)
    IN  /\ last' = Returned("status", <<>>, IF pos # 0 THEN "Active" ELSE "NoneActive",
                            "stdout", log, FALSE)
        /\ UNCHANGED <<file, content, now, ticks, pc, mem>>

\* cmd_reset()
cmd_reset ==
    LET log == load_log
        pos == position(log)
    IN  IF pos # 0
        THEN /\ save_log(remove(log, pos))
             /\ last' = Returned("reset", <<>>, "Ok", "stdout", log, TRUE)
             /\ UNCHANGED <<now, ticks, pc, mem>>
        ELSE /\ last' = Returned("reset", <<>>, "NoActiveSession", "stdout", log, FALSE)
             /\ UNCHANGED <<file, content, now, ticks, pc, mem>>

\* cmd_path(): prints the location of the file, which it does not read.
cmd_path ==
    /\ last' = Returned("path", <<>>, "Ok", "stdout", file, FALSE)
    /\ UNCHANGED <<file, content, now, ticks, pc, mem>>

\* Variant: hours < 0.0, which lets zero through.
invalid_hours_strict(h) == h[1] < 0

\* The check of cmd_log: hours <= 0.0, with hours = h[1] / h[2], h[2] > 0,
\* and whole days on top where they are written apart.
invalid_hours(h) == whole_days(h) = 0 /\ h[1] <= 0

\* cmd_log(tag, hours)
cmd_log(tag, h) ==
    IF invalid_hours(h)
    THEN /\ last' = Returned("log", <<tag, h>>, "InvalidHours", "stderr", file, FALSE)
         /\ UNCHANGED <<file, content, now, ticks, pc, mem>>
    ELSE LET log == load_log
             duration_seconds == as_i64(h[1] * 3600, h[2])
             start_time == now - duration_seconds
         IN  /\ Len(log) < MaxLen
             /\ save_log(Append(log, [Session(tag, start_time, Some(now))
                                          EXCEPT !.far = whole_days(h)]))
             /\ last' = Returned("log", <<tag, h>>, "Ok", "stdout", log, TRUE)
             /\ UNCHANGED <<now, ticks, pc, mem>>

\* The loop of cmd_report calls within_period(s.start, ..) for every
\* completed session, and within_period unwraps timestamp_opt at once: the
\* process panics on a start that chrono does not represent.  (Every end is
\* a reading of the clock.)
panics(log) ==
    \E i \in 1..Len(log) :
        is_some(log[i].end) /\ is_none(timestamp_opt(start_day(log[i])))

\* cmd_report(period)
cmd_report(period) ==
    LET log == load_log
        agg == aggregate(log, period, now)
    IN  /\ IF panics(log)
           THEN last' = Outcome("report", <<period>>, "Panic", "stderr", "exit(101)",
                                log, FALSE, EmptyAgg, <<>>)
           ELSE IF agg = EmptyAgg
           THEN last' = Outcome("report", <<period>>, "Empty", "stdout", "exit(0)",
                                log, FALSE, agg, <<>>)
           ELSE \E pairs \in into_iter(agg) :
                    last' = Outcome("report", <<period>>, "Table", "stdout", "exit(0)",
                                    log, FALSE, agg, sort_by(pairs))
        /\ UNCHANGED <<file, content, now, ticks, pc, mem>>

\* Variant: the wall clock is set back between two runs of the program.
Tick_back ==
    /\ ticks < MaxTicks
    /\ \E d \in TickSteps : now' = now - d
    /\ ticks' = ticks + 1
    /\ UNCHANGED <<file, content, last, pc, mem>>

\* The wall clock advances between two runs of the program.
Tick ==
    /\ ticks < MaxTicks
    /\ \E d \in TickSteps : now' = now + d
    /\ ticks' = ticks + 1
    /\ UNCHANGED <<file, content, last, pc, mem>>

(***************************************************************************)
(* Commands of one user run one after another, from an absent log file.    *)
(***************************************************************************)
\* The processes that run the program.
Procs == {1, 2}

\* A process that runs no command.
NoCommand == [cmd |-> "none", arg |-> <<>>, log |-> <<>>, result |-> "none"]

Init ==
    /\ file = <<>>
    /\ content = "absent"
    /\ now = Epoch0
    /\ ticks = 0
    /\ last = Returned("none", <<>>, "Ok", "stdout", <<>>, FALSE)
    /\ pc = [p \in Procs |-> "idle"]
    /\ mem = [p \in Procs |-> NoCommand]

Next ==
    \/ \E tag \in Tags : cmd_start(tag)
    \/ cmd_stop
    \/ cmd_status
    \/ cmd_reset
    \/ cmd_path
    \/ \E tag \in Tags, h \in HoursInputs : cmd_log(tag, h)
    \/ \E period \in Periods : cmd_report(period)
    \/ Tick

Spec == Init /\ [][Next]_vars

(***************************************************************************)
(* The report engine on its own: report applied to a log file of up to     *)
(* MaxProbeLen sessions at some clock reading, be the file written by the  *)
(* program, by hand, or under a clock that was set back.                   *)
(***************************************************************************)
\* The clock readings of report: Tuesday 2024-12-31 23:59:59 ("yesterday")
\* and Wednesday 2025-01-01 00:00:00 ("today").
ProbeTimes == {Epoch0, Epoch0 + 1}

\* <<start, end>> of the sessions: of no length on Saturday 2024-12-28,
\* three days long up to yesterday, over midnight from yesterday to today,
\* of no length today, running since yesterday.
ProbeSpans ==
    {<<Epoch0 - 259200, Some(Epoch0 - 259200)>>,
     <<Epoch0 - 259200, Some(Epoch0)>>,
     <<Epoch0, Some(Epoch0 + 1)>>,
     <<Epoch0 + 1, Some(Epoch0 + 1)>>,
     <<Epoch0, None>>}

ProbeSessions == {Session(tag, sp[1], sp[2]) : tag \in Tags, sp \in ProbeSpans}

ProbeLogs == UNION {[1..n -> ProbeSessions] : n \in 0..MaxProbeLen}

InitReport ==
    /\ file \in ProbeLogs
    /\ content = "json"
    /\ now \in ProbeTimes
    /\ ticks = 0
    /\ last = Returned("none", <<>>, "Ok", "stdout", <<>>, FALSE)
    /\ pc = [p \in Procs |-> "idle"]
    /\ mem = [p \in Procs |-> NoCommand]

NextReport == \E period \in Periods : cmd_report(period)

SpecReport == InitReport /\ [][NextReport]_vars

(***************************************************************************)
(* The program step by step.  A process is one invocation of the binary:   *)
(* main() parses the command line and dispatches; the command function     *)
(* loads the file, computes on its own copy `log`, and where it mutates,    *)
(* calls save_log, whose fs::write first opens the file truncating it and  *)
(* then writes the bytes.  There is no lock: the steps of two processes    *)
(* interleave freely.  pc[p] is the step process p takes next:             *)
(*   "idle"     not invoked                                                *)
(*   "load"     about to call load_log()                                   *)
(*   "create"   about to open the file for writing, truncating it          *)
(*   "write"    about to write the serialized `log`                        *)
(*   "draw"     in the display loop of cmd_start, about to print           *)
(*   "sleep"    in the display loop of cmd_start, about to sleep           *)
(*   "exited"   returned from main(), exit status 0                        *)
(*   "panicked" ended by a panic, exit status 101                          *)
(*   "killed"   ended by the user's interrupt                              *)
(***************************************************************************)
\* The command lines: <<subcommand, arguments>>.
CommandLines ==
    {<<"start", <<tag>>>> : tag \in Tags}
        \cup {<<"stop", <<>>>>, <<"status", <<>>>>, <<"reset", <<>>>>, <<"path", <<>>>>}
        \cup {<<"log", <<tag, h>>>> : tag \in Tags, h \in HoursInputs}
        \cup {<<"report", <<period>>>> : period \in Periods}

\* Variant: the process moves on without what it computed.
goto_empty_handed(p, label, result, log) ==
    /\ pc' = [pc EXCEPT ![p] = label]
    /\ mem' = [mem EXCEPT ![p].result = result]

\* The process moves on: its next step, the outcome so far, its copy `log`.
goto(p, label, result, log) ==
    /\ pc' = [pc EXCEPT ![p] = label]
    /\ mem' = [mem EXCEPT ![p].result = result, ![p].log = log]

\* main(): dispatch on the parsed command line.  path reads no file; log
\* checks its hours before it loads.  (A command that appends is invoked
\* while the store holds fewer than MaxLen sessions.)
main(p, line) ==
    /\ pc[p] = "idle"
    /\ line[1] \in {"start", "log"} => Len(load_log) < MaxLen
    /\ mem' = [mem EXCEPT ![p] =
                 [cmd |-> line[1], arg |-> line[2], log |-> <<>>,
                  result |-> IF line[1] = "path" THEN "Ok"
                             ELSE IF line[1] = "log" /\ invalid_hours(line[2][2])
                                  THEN "InvalidHours"
                                  ELSE "none"]]
    /\ pc' = [pc EXCEPT ![p] =
                 IF line[1] = "path" \/ (line[1] = "log" /\ invalid_hours(line[2][2]))
                 THEN "exited" ELSE "load"]
    /\ UNCHANGED <<file, content, now, ticks, last>>

\* let mut log = load_log(); and the computation on `log` up to save_log or
\* up to the return.
load(p) ==
    LET log == load_log
        pos == position(log)
        cmd == mem[p].cmd
        arg == mem[p].arg
    IN  /\ pc[p] = "load"
        /\ CASE cmd = "start" ->
                    IF any_running(log)
                    THEN goto(p, "exited", "AlreadyRunning", log)
                    ELSE /\ Len(log) < MaxLen
                         /\ goto(p, "create", "Ok", Append(log, Session(arg[1], now, None)))
             [] cmd = "stop" ->
                    IF pos # 0
                    THEN goto(p, "create", "Ok", [log EXCEPT ![pos].end = Some(now)])
                    ELSE goto(p, "exited", "NoActiveSession", log)
             [] cmd = "status" ->
                    goto(p, "exited", IF pos # 0 THEN "Active" ELSE "NoneActive", log)
             [] cmd = "reset" ->
                    IF pos # 0
                    THEN goto(p, "create", "Ok", remove(log, pos))
                    ELSE goto(p, "exited", "NoActiveSession", log)
             [] cmd = "log" ->
                    /\ Len(log) < MaxLen
                    /\ goto(p, "create", "Ok",
                            Append(log, [Session(arg[1],
                                                 now - as_i64(arg[2][1] * 3600, arg[2][2]),
                                                 Some(now))
                                             EXCEPT !.far = whole_days(arg[2])]))
             [] cmd = "report" ->
                    IF panics(log)
                    THEN goto(p, "panicked", "Panic", log)
                    ELSE goto(p, "exited",
                              IF aggregate(log, arg[1], now) = EmptyAgg
                              THEN "Empty" ELSE "Table",
                              log)
        /\ UNCHANGED <<file, content, now, ticks, last>>

\* fs::write, first half: File::create opens the file and truncates it to no
\* bytes, which do not parse.
create(p) ==
    /\ pc[p] = "create"
    /\ file' = <<>>
    /\ content' = "empty"
    /\ pc' = [pc EXCEPT ![p] = "write"]
    /\ UNCHANGED <<now, ticks, last, mem>>

\* Variant: the bytes of `log` are put behind those the file holds.
write_all_append(p) ==
    /\ pc[p] = "write"
    /\ file' = file \o mem[p].log
    /\ content' = "json"
    /\ pc' = [pc EXCEPT ![p] = IF mem[p].cmd = "start" THEN "draw" ELSE "exited"]
    /\ UNCHANGED <<now, ticks, last, mem>>

\* Variant: the bytes of `log` are written only into a file that holds no
\* bytes of another process.
write_all_if_empty(p) ==
    /\ pc[p] = "write"
    /\ IF content = "empty"
       THEN file' = mem[p].log /\ content' = "json"
       ELSE UNCHANGED <<file, content>>
    /\ pc' = [pc EXCEPT ![p] = IF mem[p].cmd = "start" THEN "draw" ELSE "exited"]
    /\ UNCHANGED <<now, ticks, last, mem>>

\* fs::write, second half: write_all puts the bytes of `log` at offset 0.
\* Bytes another process wrote since this one truncated stay behind those of
\* `log` where they reach further, and then the file does not parse.
write_all(p) ==
    /\ pc[p] = "write"
    /\ file' = mem[p].log
    /\ \/ content' = "json"
       \/ content # "empty" /\ content' = "garbage"
    /\ pc' = [pc EXCEPT ![p] = IF mem[p].cmd = "start" THEN "draw" ELSE "exited"]
    /\ UNCHANGED <<now, ticks, last, mem>>

\* The display loop of cmd_start: print the elapsed time ...
draw(p) ==
    /\ pc[p] = "draw"
    /\ pc' = [pc EXCEPT ![p] = "sleep"]
    /\ UNCHANGED <<file, content, now, ticks, last, mem>>

\* Variant: cmd_start returns after the first sleep.
sleep_once(p) ==
    /\ pc[p] = "sleep"
    /\ pc' = [pc EXCEPT ![p] = "exited"]
    /\ UNCHANGED <<file, content, now, ticks, last, mem>>

\* ... sleep one second, and again.  The loop has no exit.
sleep(p) ==
    /\ pc[p] = "sleep"
    /\ pc' = [pc EXCEPT ![p] = "draw"]
    /\ UNCHANGED <<file, content, now, ticks, last, mem>>

\* The user presses Ctrl+C: the process ends wherever it is.
Interrupt(p) ==
    /\ pc[p] \in {"load", "create", "write", "draw", "sleep"}
    /\ pc' = [pc EXCEPT ![p] = "killed"]
    /\ UNCHANGED <<file, content, now, ticks, last, mem>>

\* The shell is ready for the next command line.
Prompt(p) ==
    /\ pc[p] \in {"exited", "panicked", "killed"}
    /\ pc' = [pc EXCEPT ![p] = "idle"]
    /\ UNCHANGED <<file, content, now, ticks, last, mem>>

\* The steps the program takes on its own.
step(p) == load(p) \/ create(p) \/ write_all(p) \/ draw(p) \/ sleep(p)

(***************************************************************************)
(* One terminal: process 1 runs one command line after another, from an    *)
(* absent log file, while the clock advances.                              *)
(***************************************************************************)
NextOne ==
    \/ \E line \in CommandLines : main(1, line)
    \/ load(1)
    \/ create(1)
    \/ write_all(1)
    \/ draw(1)
    \/ sleep(1)
    \/ Interrupt(1)
    \/ Prompt(1)
    \/ Tick

SpecOne == Init /\ [][NextOne]_vars

(***************************************************************************)
(* One terminal within one second of the clock, to see where commands end. *)
(* The program's own steps are taken sooner or later; whether the user     *)
(* types a command or interrupts one is up to the user.                    *)
(***************************************************************************)
NextRun ==
    \/ \E line \in CommandLines : main(1, line)
    \/ step(1)
    \/ Interrupt(1)
    \/ Prompt(1)

SpecRun == Init /\ [][NextRun]_vars /\ WF_vars(step(1))

(***************************************************************************)
(* Two terminals: processes 1 and 2 run one command line each, at the same *)
(* time, on a log file that earlier commands left behind.                  *)
(***************************************************************************)
\* Stores that commands run one after another leave behind: none, a running
\* session, a completed one, a running session behind a completed one.
RaceLogs ==
    {<<>>,
     <<Session("a", Epoch0 - 60, None)>>,
     <<Session("b", Epoch0 - 7200, Some(Epoch0 - 3600))>>,
     <<Session("b", Epoch0 - 7200, Some(Epoch0 - 3600)), Session("a", Epoch0 - 60, None)>>}

InitRace ==
    /\ file \in RaceLogs
    /\ content = "json"
    /\ now = Epoch0
    /\ ticks = 0
    /\ last = Returned("none", <<>>, "Ok", "stdout", <<>>, FALSE)
    /\ pc = [p \in Procs |-> "idle"]
    /\ mem = [p \in Procs |-> NoCommand]

NextRace ==
    \E p \in Procs :
        \/ \E line \in CommandLines : main(p, line)
        \/ load(p)
        \/ create(p)
        \/ write_all(p)
        \/ draw(p)
        \/ sleep(p)
        \/ Interrupt(p)

SpecRace == InitRace /\ [][NextRace]_vars /\ \A p \in Procs : WF_vars(step(p))

(***************************************************************************)
(* A damaged file: between two commands something other than the program  *)
(* (an editor, a full disk, a crash in mid-write) leaves log.json with     *)
(* bytes that are not a JSON array of sessions.  `file` keeps the sessions *)
(* that were persisted before, which no load sees any more.                *)
(***************************************************************************)
Corrupt ==
    /\ content # "garbage"
    /\ content' = "garbage"
    /\ UNCHANGED <<file, now, ticks, last, pc, mem>>

NextCorrupt ==
    \/ \E tag \in Tags : cmd_start(tag)
    \/ cmd_stop
    \/ cmd_status
    \/ cmd_reset
    \/ \E tag \in Tags, h \in HoursInputs : cmd_log(tag, h)
    \/ Corrupt

SpecCorrupt == Init /\ [][NextCorrupt]_vars

(***************************************************************************)
(* Manual entries of any size: log takes every hours > 0, also those that  *)
(* put the start of the session far before the epoch.                      *)
(***************************************************************************)
NextFar ==
    \/ \E tag \in Tags : cmd_start(tag)
    \/ cmd_stop
    \/ \E tag \in Tags, h \in HoursInputs \cup FarHours : cmd_log(tag, h)
    \/ \E period \in Periods : cmd_report(period)

SpecFar == Init /\ [][NextFar]_vars

(***************************************************************************)
(* Properties of the session store.                                        *)
(***************************************************************************)
Running(log) == {i \in 1..Len(log) : is_none(log[i].end)}

Completed(log) == SelectSeq(log, LAMBDA s : is_some(s.end))

\* C1: after any sequence of commands run one after another from an absent
\* log file, the file holds at most one session whose end is None.
C1_AtMostOneActive == Cardinality(Running(file)) <= 1

\* A running session stored behind a completed one.
C1_Witness ==
    /\ Len(file) = 2
    /\ Cardinality(Running(file)) = 1
    /\ Completed(file) # <<>>

\* C2: start on a store that holds a running session fails with
\* AlreadyRunning, whatever the tag, and leaves the file as it was, without
\* writing it.
C2_StartWhileRunningFails ==
    (last.cmd = "start" /\ Running(last.before) # {}) =>
        /\ last.result = "AlreadyRunning"
        /\ ~last.saved
        /\ file = last.before

\* start with another tag refused while a session is running.
C2_Witness ==
    /\ last.cmd = "start"
    /\ last.result = "AlreadyRunning"
    /\ Running(file) # {}
    /\ file[Len(file)].tag # last.arg[1]

\* C3: stop on a store without a running session fails with NoActiveSession
\* and leaves the file as it was, whatever completed sessions it holds.
C3_StopWithoutActiveFails ==
    (last.cmd = "stop" /\ Running(last.before) = {}) =>
        /\ last.result = "NoActiveSession"
        /\ ~last.saved
        /\ file = last.before

\* stop refused on a store of completed sessions, the clock having moved
\* since they ended.
C3_Witness ==
    /\ last.cmd = "stop"
    /\ last.result = "NoActiveSession"
    /\ Len(file) = 2
    /\ \A i \in 1..Len(file) : unwrap(file[i].end) < now

\* What reset leaves in the file.
ResetEffect ==
    last.cmd = "reset" =>
        IF Running(last.before) = {}
        THEN /\ last.result = "NoActiveSession"
             /\ ~last.saved
             /\ file = last.before
        ELSE /\ last.result = "Ok"
             /\ file = Completed(last.before)
             /\ Len(file) = Len(last.before) - 1

\* A reset that follows a successful start restores the file start found.
ResetUndoesStart ==
    (last.cmd = "start" /\ last.result = "Ok" /\ last'.cmd = "reset") =>
        /\ Running(last.before) = {}
        /\ file' = last.before

\* C4: reset without a running session fails with NoActiveSession and
\* leaves the file as it was; reset with a running session removes exactly
\* that session, so start followed by reset yields the file start found.
C4_ResetRemovesActive == [](ResetEffect) /\ [][ResetUndoesStart]_vars

\* reset has removed the running session that start put behind a completed
\* one.
C4_Witness ==
    /\ last.cmd = "reset"
    /\ last.result = "Ok"
    /\ Len(last.before) = 2
    /\ is_none(last.before[2].end)
    /\ file = <<last.before[1]>>

\* C5: log with hours <= 0 fails with InvalidHours and leaves the file as
\* it was: nothing is appended, the file is not written.
C5_NonPositiveHoursRejected ==
    (last.cmd = "log" /\ last.arg[2][1] <= 0) =>
        /\ last.result = "InvalidHours"
        /\ ~last.saved
        /\ file = last.before

\* log refused for hours = 0 on a store that holds a session.
C5_Witness ==
    /\ last.cmd = "log"
    /\ last.arg[2][1] = 0
    /\ last.result = "InvalidHours"
    /\ file # <<>>

\* The session that a successful log appended.
Logged == file[Len(file)]

\* C6: log with hours > 0 appends one completed session whose duration
\* end - start is hours * 3600 rounded to the nearest whole second.
C6_LogRoundsToNearest ==
    (last.cmd = "log" /\ last.result = "Ok") =>
        /\ file = Append(last.before, Logged)
        /\ Logged.tag = last.arg[1]
        /\ is_some(Logged.end)
        /\ unwrap(Logged.end) - Logged.start = round_as_i64(last.arg[2][1] * 3600, last.arg[2][2])

\* The outcomes that are state errors.
StateErrors == {"AlreadyRunning", "NoActiveSession", "InvalidHours"}

\* C7: a command that ends in a state error reports it on standard error
\* and the process exits with a non-zero status; status zero only on
\* success.
C7_StateErrorsExitNonZero ==
    /\ last.result \in StateErrors => (last.stream = "stderr" /\ last.exit # "exit(0)")
    /\ last.exit = "exit(0)" => last.result \notin StateErrors

(***************************************************************************)
(* Properties of the report engine, stated for report applied to any log   *)
(* file at any clock reading (SpecReport: file and now stay as report      *)
(* found them).                                                            *)
(***************************************************************************)
\* The timestamp ts lies in the period that holds the clock reading t: the
\* same day, the same Monday-to-Sunday week, the same month of the same year.
SamePeriod(ts, t, period) ==
    CASE period = "daily"   -> ts \div 86400 = t \div 86400
      [] period = "weekly"  -> (ts \div 86400 + 3) \div 7 = (t \div 86400 + 3) \div 7
      [] period = "monthly" -> /\ CivilFromDays(ts \div 86400).year = CivilFromDays(t \div 86400).year
                               /\ CivilFromDays(ts \div 86400).month = CivilFromDays(t \div 86400).month

\* The completed sessions of log with start or end in the current period.
Contributing(log, period, t) ==
    {i \in 1..Len(log) :
        /\ log[i].end # <<>>
        /\ (SamePeriod(log[i].start, t, period) \/ SamePeriod(log[i].end[1], t, period))}

\* The sum of end - start over the sessions of log at the indices I.
RECURSIVE SumDur(_, _)
SumDur(log, I) ==
    IF I = {} THEN 0
    ELSE LET i == CHOOSE j \in I : TRUE
         IN  (log[i].end[1] - log[i].start) + SumDur(log, I \ {i})

\* C8: the aggregation of report maps each tag to the sum of end - start
\* over exactly the completed sessions whose start or end lies in the
\* current period; running sessions never contribute, and a tag has an
\* entry if and only if such a session carries it.
C8_AggregateSumsContributing ==
    last.cmd = "report" =>
        LET I == Contributing(file, last.arg[1], now) IN
        /\ DOMAIN last.agg = {file[i].tag : i \in I}
        /\ \A tag \in DOMAIN last.agg :
               last.agg[tag] = SumDur(file, {i \in I : file[i].tag = tag})

\* The weekly report of today: two sessions of one tag add up (one by its
\* end only), the running session of that tag adds nothing.
C8_Witness ==
    /\ last.cmd = "report"
    /\ last.arg = <<"weekly">>
    /\ now = Epoch0 + 1
    /\ Len(file) = 3
    /\ file[1] = Session("a", Epoch0 - 259200, Some(Epoch0))
    /\ file[2] = Session("a", Epoch0, None)
    /\ file[3] = Session("a", Epoch0, Some(Epoch0 + 1))
    /\ last.agg = [x \in {"a"} |-> 259201]

\* The total of a tag in an aggregation, 0 without an entry.
TotalOf(agg, tag) == IF tag \in DOMAIN agg THEN agg[tag] ELSE 0

\* The log without its session i.
Without(log, i) == SubSeq(log, 1, i - 1) \o SubSeq(log, i + 1, Len(log))

\* C9: a completed session that starts on one day and ends on the next is
\* counted with its duration in the daily report made on the day of its
\* start and in the daily report made on the day of its end.
C9_BoundarySessionCountedTwice ==
    (last.cmd = "report" /\ last.arg = <<"daily">>) =>
        \A i \in 1..Len(file) :
            LET s == file[i] IN
            (/\ s.end # <<>>
             /\ s.end[1] \div 86400 = s.start \div 86400 + 1
             /\ now \div 86400 \in {s.start \div 86400, s.end[1] \div 86400}) =>
                /\ s.tag \in DOMAIN last.agg
                /\ last.agg[s.tag] = (s.end[1] - s.start)
                                     + TotalOf(aggregate(Without(file, i), "daily", now), s.tag)

\* The daily report made yesterday counts the session that ends today.
C9_Witness ==
    /\ last.cmd = "report"
    /\ last.arg = <<"daily">>
    /\ now = Epoch0
    /\ file = <<Session("b", Epoch0, Some(Epoch0 + 1))>>
    /\ last.agg = [x \in {"b"} |-> 1]
    /\ last.rows = <<<<"b", 1>>>>

\* C10: the rows of report are the aggregated tags in non-increasing order
\* of total seconds, and the empty result is returned exactly when no tag
\* has an entry, which a row with a total of zero is not.
C10_RowsDescendingOrEmpty ==
    last.cmd = "report" =>
        /\ \A i \in 1..(Len(last.rows) - 1) : last.rows[i][2] >= last.rows[i + 1][2]
        /\ Len(last.rows) = Cardinality(DOMAIN last.agg)
        /\ {last.rows[i] : i \in 1..Len(last.rows)} = {<<x, last.agg[x]>> : x \in DOMAIN last.agg}
        /\ last.result \in {"Empty", "Table"}
        /\ last.result = "Empty" <=> Contributing(file, last.arg[1], now) = {}
        /\ last.result = "Empty" <=> last.rows = <<>>

\* A table of two rows, the larger total first, the second total zero.
C10_Witness ==
    /\ last.cmd = "report"
    /\ last.result = "Table"
    /\ Len(last.rows) = 2
    /\ last.rows[1][2] > last.rows[2][2]
    /\ last.rows[2][2] = 0

(***************************************************************************)
(* Properties of commands that run at the same time.                       *)
(***************************************************************************)
\* Process p ran start, found no running session, wrote its copy of the log
\* and shows the elapsed time.
Started(p) ==
    /\ mem[p].cmd = "start"
    /\ mem[p].result = "Ok"
    /\ pc[p] \in {"draw", "sleep"}

\* C11, as stated: once two invocations of start that ran at the same time
\* have both found no running session and both saved, the file holds more
\* than one session with end = None.
C11_RacingStartsLeaveTwoActive ==
    (Started(1) /\ Started(2)) => Cardinality(Running(load_log)) > 1

\* C11, amended: whatever two command lines run at the same time, the file
\* never holds more than one session with end = None; when two invocations
\* of start have both succeeded, the file is the copy one of them wrote,
\* with that one's session as its only running session, or it does not
\* parse: the other session is lost.
C11_RacingStartsKeepOneActive ==
    /\ Cardinality(Running(load_log)) <= 1
    /\ (Started(1) /\ Started(2)) =>
           \/ content = "garbage"
           \/ /\ content = "json"
              /\ file \in {mem[1].log, mem[2].log}
              /\ Cardinality(Running(file)) = 1

\* Both invocations of start succeeded, with different tags, and the file
\* holds the session of the second one only.
C11_Witness ==
    /\ Started(1)
    /\ Started(2)
    /\ mem[1].arg # mem[2].arg
    /\ content = "json"
    /\ file = mem[2].log
    /\ file # mem[1].log
    /\ Cardinality(Running(file)) = 1

\* Process p ran a command that saves, and has saved.
Saved(p) ==
    /\ mem[p].cmd \in {"start", "stop", "reset", "log"}
    /\ mem[p].result = "Ok"
    /\ pc[p] \in {"exited", "draw", "sleep"}

\* The write of a process puts its own copy in the file, whatever another
\* process has written there since the copy was loaded.
WriterOverwrites ==
    \A p \in Procs :
        (pc[p] = "write" /\ pc'[p] \notin {"write", "killed"} /\ content' = "json") =>
            file' = mem[p].log

\* C18: when two mutating commands run at the same time, each loads the
\* whole file and later overwrites it with its own copy, so that once both
\* have saved, the file is the copy of one of them (or does not parse): what
\* the other persisted, a logged session or the end set by stop, is gone.
C18_LastWriterWins ==
    /\ [][WriterOverwrites]_vars
    /\ []((Saved(1) /\ Saved(2)) =>
            \/ content = "garbage"
            \/ content = "json" /\ file \in {mem[1].log, mem[2].log})

\* stop and log ran at the same time on a running session and both
\* succeeded; the file is the copy of log, in which the session that stop
\* ended is running again; in the copy of stop the logged session is missing.
C18_Witness ==
    /\ Saved(1)
    /\ Saved(2)
    /\ mem[1].cmd = "stop"
    /\ mem[2].cmd = "log"
    /\ content = "json"
    /\ file = mem[2].log
    /\ Len(file) = 2
    /\ is_none(file[1].end)
    /\ mem[1].log = <<Session(file[1].tag, file[1].start, Some(now))>>

(***************************************************************************)
(* Properties of the run of one command.                                   *)
(***************************************************************************)
\* The command function of process p is under way.
Busy(p) == pc[p] \in {"load", "create", "write", "draw", "sleep"}

\* Process p is in the display loop of cmd_start.
Displaying(p) == pc[p] \in {"draw", "sleep"}

\* C12, as stated: every command, once invoked, comes to an end whether or
\* not the user interrupts it; a successful start too, after it saved the
\* new session.
C12_EveryCommandFinishes == Busy(1) ~> (pc[1] \in {"exited", "panicked", "killed"})

\* C12, amended: a command that is not interrupted either returns or is a
\* successful start that has saved its session and entered the display
\* loop; only start enters the loop, after its session is in the file, and
\* nothing but the user's interrupt ends the loop.
DisplayEndsByInterrupt == Displaying(1) => pc'[1] \in {"draw", "sleep", "killed"}

C12_AllButStartFinish ==
    /\ Busy(1) ~> (pc[1] \in {"exited", "panicked", "killed"} \/ Displaying(1))
    /\ [](Displaying(1) =>
            /\ mem[1].cmd = "start"
            /\ mem[1].result = "Ok"
            /\ content = "json"
            /\ file = mem[1].log)
    /\ [][DisplayEndsByInterrupt]_vars

\* A successful start behind a completed session: saved, and sleeping in
\* the display loop.
C12_Witness ==
    /\ pc[1] = "sleep"
    /\ mem[1].cmd = "start"
    /\ Len(file) = 2
    /\ Running(file) = {2}

(***************************************************************************)
(* Properties of a file that does not parse.                               *)
(***************************************************************************)
\* A command that runs on a file that does not parse: it loads the empty
\* store (log with rejected hours loads nothing) and reports no error of
\* reading.
OnGarbage ==
    /\ last'.result # "InvalidHours" => last'.before = <<>>
    /\ last'.result \in {"Ok", "InvalidHours", "NoActiveSession", "NoneActive"}
    /\ last'.exit \in {"exit(0)", "SIGINT"}

\* start and log on such a file succeed as on an empty store and leave the
\* new session as the only one.
OverwritesGarbage ==
    /\ last'.cmd = "start" => last'.result = "Ok"
    /\ last'.result = "Ok" =>
           /\ last'.cmd \in {"start", "log"}
           /\ last'.saved
           /\ content' = "json"
           /\ Len(file') = 1
           /\ file'[1].tag = last'.arg[1]
           /\ file'[1].end = IF last'.cmd = "start" THEN None ELSE Some(now)

\* status, stop and reset on such a file find no running session and leave
\* the file as it is.
NoActiveOnGarbage ==
    last'.cmd \in {"status", "stop", "reset"} =>
        /\ last'.result = IF last'.cmd = "status" THEN "NoneActive" ELSE "NoActiveSession"
        /\ ~last'.saved
        /\ UNCHANGED <<file, content>>

\* C13: a file that exists but does not parse loads as the empty sequence
\* without an error outcome; the next successful start or log overwrites it
\* with a store of the new session only; status, stop and reset report no
\* active session; what was persisted before is lost.
C13_UnparsableLoadsAsEmpty ==
    [][content = "garbage" => OnGarbage /\ OverwritesGarbage /\ NoActiveOnGarbage]_vars

\* stop finds nothing to stop in a damaged file that held a running session
\* behind a completed one.
C13_Witness ==
    /\ content = "garbage"
    /\ Len(file) = 2
    /\ Running(file) = {2}
    /\ last.cmd = "stop"
    /\ last.result = "NoActiveSession"

(***************************************************************************)
(* Frame and effect of start, stop and log.                                *)
(***************************************************************************)
\* start loads a store without a running session: its copy becomes that
\* store with one session [tag, now, None] appended, the file untouched.
StartAppends ==
    (/\ pc[1] = "load"
     /\ mem[1].cmd = "start"
     /\ Running(load_log) = {}
     /\ pc'[1] \notin {"load", "killed"}) =>
        /\ pc'[1] = "create"
        /\ mem'[1].result = "Ok"
        /\ mem'[1].log = Append(load_log, Session(mem[1].arg[1], now, None))
        /\ Len(mem'[1].log) = Len(load_log) + 1
        /\ UNCHANGED <<file, content>>

\* The display begins with the step that wrote the copy to the file.
StartSavesBeforeDisplay ==
    (~Displaying(1) /\ Displaying(1)') =>
        /\ pc[1] = "write"
        /\ file' = mem[1].log
        /\ content' = "json"

\* Interrupting the display leaves the file as it is.
InterruptKeepsSession ==
    (Displaying(1) /\ pc'[1] = "killed") => UNCHANGED <<file, content>>

\* C14: start invoked when no session is active appends exactly one session
\* with the given tag, start = now and end = None as the last element and
\* leaves every stored session as it was, in value and order; the session is
\* in the file before the display begins, and interrupting the display
\* leaves it there, active.
C14_StartAppendsOneAndPersists ==
    /\ [][StartAppends]_vars
    /\ [][StartSavesBeforeDisplay]_vars
    /\ [][InterruptKeepsSession]_vars
    /\ [](Displaying(1) =>
            /\ content = "json"
            /\ file = mem[1].log
            /\ Running(file) = {Len(file)}
            /\ file[Len(file)].tag = mem[1].arg[1])

\* start was interrupted in its display: the new session is stored as the
\* running one, behind the completed session that was there before.
C14_Witness ==
    /\ pc[1] = "killed"
    /\ mem[1].cmd = "start"
    /\ content = "json"
    /\ file = mem[1].log
    /\ Len(file) = 2
    /\ is_some(file[1].end)
    /\ file[2] = Session(mem[1].arg[1], file[2].start, None)

\* stop on a store with a running session: that session gets end = now and
\* nothing else changes; no session is running afterwards.
StopEnds ==
    (Running(file) # {} /\ last'.cmd = "stop") =>
        LET i == CHOOSE i \in Running(file) : TRUE IN
        /\ Running(file) = {i}
        /\ last'.result = "Ok"
        /\ Len(file') = Len(file)
        /\ file'[i] = Session(file[i].tag, file[i].start, Some(now))
        /\ \A j \in 1..Len(file) : j # i => file'[j] = file[j]
        /\ Running(file') = {}

\* start right after a successful stop succeeds.
StartAfterStop ==
    (last.cmd = "stop" /\ last.result = "Ok" /\ last'.cmd = "start") =>
        /\ last'.result = "Ok"
        /\ last'.saved
        /\ Running(file') = {Len(file')}

\* C15: stop invoked with an active session sets end = now on that session
\* only; its tag, start and position, every other session and the length of
\* the store are unchanged; afterwards no session has end = None, and a
\* start that follows at once succeeds.
C15_StopEndsActiveOnly == [][StopEnds]_vars /\ [][StartAfterStop]_vars

\* stop ended, a second after its start, the session stored behind a logged
\* one.
C15_Witness ==
    /\ last.cmd = "stop"
    /\ last.result = "Ok"
    /\ Len(file) = 2
    /\ file[1] = last.before[1]
    /\ is_none(last.before[2].end)
    /\ file[2] = Session(last.before[2].tag, now - 1, Some(now))

(***************************************************************************)
(* Completed sessions under commands run one after another.                *)
(***************************************************************************)
\* The running session of `log` became completed in `log2`, in its place.
ActiveCompleted(log, log2) ==
    \E i \in Running(log) :
        \E e \in {log2[j].end : j \in 1..Len(log2)} :
            /\ is_some(e)
            /\ log2 = [log EXCEPT ![i].end = e]

\* From one state to the next the completed sessions, in their order, stay
\* as they are, or one is added behind them, or the running session becomes
\* one of them where it stands.
CompletedKept ==
    LET done == Completed(file)
        done2 == Completed(file')
    IN  \/ done2 = done
        \/ /\ Len(done2) = Len(done) + 1
           /\ done2 = Append(done, file'[Len(file')])
        \/ ActiveCompleted(file, file')

\* C16: once a session is stored with end set, no later command run by one
\* process after another on a file that parses changes its tag, start or
\* end, removes it, or changes its order among the completed sessions.
C16_CompletedSessionsKept == [][CompletedKept]_vars

\* stop completed the session that stands in front of a logged one, which
\* is as it was.
C16_Witness ==
    /\ last.cmd = "stop"
    /\ last.result = "Ok"
    /\ Len(file) = 2
    /\ is_none(last.before[1].end)
    /\ is_some(last.before[2].end)
    /\ Completed(last.before) = <<file[2]>>
    /\ Completed(file) = file

(***************************************************************************)
(* Start and end of the stored sessions.                                   *)
(***************************************************************************)
\* C17: every session appended by a successful log has start < end, for
\* every hours > 0 however small, so that no manual entry has a duration of
\* zero; and every stored session with an end has start <= end.
C17_LoggedStartBeforeEnd ==
    /\ (last.cmd = "log" /\ last.result = "Ok") => Logged.start < unwrap(Logged.end)
    /\ \A i \in 1..Len(file) : is_some(file[i].end) => file[i].start <= unwrap(file[i].end)

(***************************************************************************)
(* Completed sessions and the period of report, the clock never set back.  *)
(***************************************************************************)
\* The completed sessions of the file.
Done == {file[i] : i \in {i \in 1..Len(file) : is_some(file[i].end)}}

\* Every completed session ended at or before the present second; report
\* would include it exactly if its end lies in the current period, and the
\* daily report exactly on the day of its end.
EndDecides ==
    \A s \in Done :
        /\ unwrap(s.end) <= now
        /\ \A period \in Periods :
               included(s, period, now) <=> within_period(unwrap(s.end), period, now)
        /\ included(s, "daily", now) <=> DayOf(unwrap(s.end)) = DayOf(now)

\* A run of report lists the tags of the completed sessions whose end lies
\* in the current period.
ReportByEnd ==
    (last'.cmd = "report" /\ now' = now) =>
        DOMAIN last'.agg =
            {s.tag : s \in {d \in Done : within_period(unwrap(d.end), last'.arg[1], now)}}

\* C19: in every store reached through start, stop, reset and log under a
\* clock that never goes backwards, every completed session has end <= now;
\* report includes it if and only if its end lies in the current period
\* (the test on its start adds nothing); the daily report counts it on the
\* day of its end and on no other day.
C19_CompletedCountedByEnd == []EndDecides /\ [][ReportByEnd]_vars

\* The daily report of the new day counts the session that began the day
\* before and ended today, and not the one logged the day before.
C19_Witness ==
    /\ last.cmd = "report"
    /\ last.arg = <<"daily">>
    /\ now = Epoch0 + 1
    /\ file = <<Session("a", Epoch0, Some(Epoch0 + 1)), Session("b", Epoch0, Some(Epoch0))>>
    /\ last.agg = [x \in {"a"} |-> 1]

(***************************************************************************)
(* report on every store the commands leave behind.                        *)
(***************************************************************************)
\* C20: on every store reached through the commands, with any hours > 0
\* that log accepts, however large, report returns a table or the empty
\* result for each period and the process ends with status 0: no stored
\* timestamp fails to convert to a calendar date.
C20_ReportCompletes ==
    last.cmd = "report" =>
        /\ last.result \in {"Empty", "Table"}
        /\ last.exit = "exit(0)"
        /\ \A i \in 1..Len(file) : is_some(timestamp_opt(start_day(file[i])))

====
